---- MODULE Spec2Model ----
(***************************************************************************)
(* Model of Templates/split.py: a script that splits a `.split` file into  *)
(* several files at its `// FILE: name` markers.                           *)
(*                                                                         *)
(* Text is a sequence of one-character strings.  The marker regular        *)
(* expression is evaluated with Python's greedy, backtracking semantics,   *)
(* re.split is evaluated as the scanner loop it is, and the script body is *)
(* a state machine with one action per statement.                          *)
(***************************************************************************)
EXTENDS Integers, Sequences, FiniteSets, TLC

\* Number of lines an input document is built from.
MaxLines == 3

----------------------------------------------------------------------------
\* Characters and small text helpers

SL == "/"
SP == " "
NL == "\n"
TAB == "\t"

Max(S) == CHOOSE x \in S : \A y \in S : y <= x
Min(S) == CHOOSE x \in S : \A y \in S : x <= y

\* t[i:j] with 1-based inclusive bounds, empty when j < i
Slice(t, i, j) == IF j < i THEN <<>> ELSE SubSeq(t, i, j)

RECURSIVE Flatten(_)
Flatten(ss) == IF ss = <<>> THEN <<>> ELSE Head(ss) \o Flatten(Tail(ss))

----------------------------------------------------------------------------
\* The marker pattern  r'// *FILE: *([^ ]+) *\n'

SLASHES == <<"/", "/">>
FILE == <<"F", "I", "L", "E", ":">>

\* a literal w of the pattern matches t at position p
Lit(t, p, w) == p + Len(w) - 1 <= Len(t) /\ \A i \in 1..Len(w) : t[p + i - 1] = w[i]

\* the end of the longest run of spaces (sp = TRUE) or of characters other
\* than the space (sp = FALSE) that starts at p
RECURSIVE RunEnd(_, _, _)
RunEnd(t, p, sp) ==
  IF p <= Len(t) /\ ((t[p] = SP) <=> sp) THEN RunEnd(t, p + 1, sp) ELSE p

\* ` *` : the positions the matcher can stand at after consuming spaces from p
\* (faulty variant: ` ?`, at most one space)
SpaceEndsAtMostOne(t, p) == {q \in p..RunEnd(t, p, TRUE) : q <= p + 1}
SpaceEnds(t, p) == p..RunEnd(t, p, TRUE)

\* `[^ ]+` : the positions after one or more characters other than the space
GroupEnds(t, p) == (p + 1)..RunEnd(t, p, FALSE)

\* ` *\n` : the positions after optional spaces and one newline
TailEnds(t, p) == {q + 1 : q \in {r \in SpaceEnds(t, p) : r <= Len(t) /\ t[r] = NL}}

\* The choices of each quantifier from which the rest of the pattern matches.
\* A greedy quantifier tries its longest choice first and backtracks to
\* shorter ones, so the match takes the largest workable choice of each
\* quantifier in pattern order.
GroupChoices(t, p) == {q \in GroupEnds(t, p) : TailEnds(t, q) # {}}
Space2Choices(t, p) == {q \in SpaceEnds(t, p) : GroupChoices(t, q) # {}}
Space1Choices(t, p) ==
  {q \in SpaceEnds(t, p) : Lit(t, q, FILE) /\ Space2Choices(t, q + Len(FILE)) # {}}

\* pattern.match(t, p) succeeds
MatchesAt(t, p) == Lit(t, p, SLASHES) /\ Space1Choices(t, p + Len(SLASHES)) # {}

\* The match object of pattern.match(t, p): span [start, end) and group 1
\* [gstart, gend)
MatchAt(t, p) ==
  LET q1 == Max(Space1Choices(t, p + Len(SLASHES)))
      q2 == Max(Space2Choices(t, q1 + Len(FILE)))
      q3 == Max(GroupChoices(t, q2))
      q4 == Max(TailEnds(t, q3))
  IN  [start |-> p, gstart |-> q2, gend |-> q3, end |-> q4]

\* pattern.search(t, pos): the start of the leftmost match from pos on, 0 if
\* there is none
RECURSIVE Search(_, _)
Search(t, pos) ==
  IF pos > Len(t) THEN 0
  ELSE IF MatchesAt(t, pos) THEN pos
  ELSE Search(t, pos + 1)

\* pattern.finditer(t) from position pos: leftmost match, then on from its end
RECURSIVE Finditer(_, _)
Finditer(t, pos) ==
  LET p == Search(t, pos)
      m == MatchAt(t, p)
  IN  IF p = 0 THEN <<>> ELSE <<m>> \o Finditer(t, m.end)

\* pattern.split(t): text before each match, the match's group 1, ..., the rest
RECURSIVE SplitPieces(_, _, _)
SplitPieces(t, ms, pos) ==
  IF ms = <<>> THEN <<Slice(t, pos, Len(t))>>
  ELSE <<Slice(t, pos, Head(ms).start - 1), Slice(t, Head(ms).gstart, Head(ms).gend - 1)>>
       \o SplitPieces(t, Tail(ms), Head(ms).end)

\* (faulty variant: the first segment starts one character late)
SplitDropsChar(t) ==
  LET ms == Finditer(t, 1)
  IN  IF ms = <<>> THEN <<t>>
      ELSE <<Slice(t, 1, ms[1].start - 1), Slice(t, ms[1].gstart, ms[1].gend - 1)>>
           \o SplitPieces(t, Tail(ms), ms[1].end + 1)
Split(t) == SplitPieces(t, Finditer(t, 1), 1)

\* pairwise(iterable): zip(gen, gen) over one shared iterator
Pairwise(s) == [i \in 1..(Len(s) \div 2) |-> <<s[2 * i - 1], s[2 * i]>>]

\* os.path.splitext(p): split at the last dot of the last path component,
\* leading dots of the component not counted
LastIndex(p, c) == Max({0} \cup {i \in 1..Len(p) : p[i] = c})
Splitext(p) ==
  LET sep == LastIndex(p, "/")
      dot == LastIndex(p, ".")
  IN  IF dot > sep /\ (\E i \in (sep + 1)..(dot - 1) : p[i] # ".")
      THEN <<Slice(p, 1, dot - 1), Slice(p, dot, Len(p))>>
      ELSE <<p, <<>>>>

----------------------------------------------------------------------------
\* Inputs: command lines and documents

PROG == <<"s", "p", "l", "i", "t", ".", "p", "y">>
A_SPLIT == <<"a", ".", "s", "p", "l", "i", "t">>
A_TXT == <<"a", ".", "t", "x", "t">>

\* sys.argv of the invocations considered
Argvs == {<<PROG>>, <<PROG, A_SPLIT>>, <<PROG, A_TXT>>, <<PROG, A_SPLIT, A_TXT>>}

\* The lines documents are built from
LCanonX == <<"/", "/", " ", "F", "I", "L", "E", ":", " ", "x", "\n">>
LTrailX == <<"/", "/", " ", "F", "I", "L", "E", ":", " ", " ", "x", " ", "\n">>
LTightY == <<"/", "/", "F", "I", "L", "E", ":", "y", "\n">>
LNoSlash == <<"F", "I", "L", "E", ":", " ", "x", "\n">>
LTab == <<"/", "/", "\t", "F", "I", "L", "E", ":", " ", "x", "\n">>
LMidA == <<"b", "/", "/", " ", "F", "I", "L", "E", ":", " ", "a", "\n">>
LText == <<"f", "\n">>
LWords == <<"c", " ", "d", "\n">>
LBlank == <<" ", "\n">>
LEnd == <<"z">>

Lines ==
  {LCanonX, LTrailX, LTightY, LNoSlash, LTab, LMidA, LText, LWords, LBlank, LEnd}

LineSeqs == UNION {[1..n -> Lines] : n \in 0..MaxLines}
Documents == {Flatten(ls) : ls \in LineSeqs}

\* The output directory before the run: empty, or holding an older x
NoFiles == [n \in {} |-> <<>>]
OldFiles == [n \in {<<"x">>} |-> <<"o", "l", "d">>]

----------------------------------------------------------------------------
\* The script

VARIABLES
  argv,           \* sys.argv
  input,          \* the text of the file argv[1] names
  fs0,            \* the output files before the run: path -> text
  fs,             \* the output files now: path -> text
  pc,             \* position in the script
  err,            \* the error the run ended with, "" if none
  name,           \* line 21
  stripped_name,  \* line 22
  ext,            \* line 22
  parsed,         \* line 26, popped at line 29
  main_name,      \* line 28
  main_contents,  \* line 29
  idx,            \* pairs the for loop of line 33 has taken
  cur,            \* arguments of the export call in progress
  handles,        \* the open file objects
  opened,         \* every open() call made so far
  written         \* every export() call that returned

vars ==
  <<argv, input, fs0, fs, pc, err, name, stripped_name, ext, parsed, main_name,
    main_contents, idx, cur, handles, opened, written>>

NONE == <<>>

Init ==
  /\ argv \in Argvs
  /\ input \in Documents
  /\ fs0 \in {NoFiles, OldFiles}
  /\ fs = fs0
  /\ pc = "argc"
  /\ err = ""
  /\ name = NONE
  /\ stripped_name = NONE
  /\ ext = NONE
  /\ parsed = <<>>
  /\ main_name = NONE
  /\ main_contents = NONE
  /\ idx = 0
  /\ cur = <<>>
  /\ handles = {}
  /\ opened = <<>>
  /\ written = <<>>

\* open(path, mode): the file object
Handle(path, mode) == [path |-> path, mode |-> mode, since |-> Len(written)]

\* leaving a `with` block closes its file object
\* (faulty variant: the file object is never closed)
CloseLeaks(hs, path) == hs
Close(hs, path) == {h \in hs : h.path # path}

\* an exception leaves every enclosing `with` block
Unwind(hs) == {}

\* open(name, "w") creates the file or truncates the one there
\* (faulty variant: mode "a", the old text is kept)
OpenAppend(files, path) ==
  [n \in DOMAIN files \cup {path} |-> IF n \in DOMAIN files THEN files[n] ELSE <<>>]
OpenW(files, path) ==
  [n \in DOMAIN files \cup {path} |-> IF n = path THEN <<>> ELSE files[n]]

\* f.write(text)
Write(files, path, text) == [files EXCEPT ![path] = @ \o text]

\* line 19
ArgcOk(argc) == argc >= 2
\* line 20
ArgcNotTooMany(argc) == argc <= 2
\* line 23
\* (faulty variant: the extension is not checked)
ExtOkAny(e) == TRUE
ExtOk(e) == e = <<".", "s", "p", "l", "i", "t">>

Fail(e) ==
  /\ pc' = "failed"
  /\ err' = e
  /\ handles' = Unwind(handles)

\* lines 18-21
CheckArgc ==
  /\ pc = "argc"
  /\ ArgcOk(Len(argv))
  /\ ArgcNotTooMany(Len(argv))
  /\ name' = argv[2]
  /\ pc' = "splitext"
  /\ UNCHANGED <<argv, input, fs0, fs, err, stripped_name, ext, parsed, main_name,
                 main_contents, idx, cur, handles, opened, written>>

FailArgcMissing ==
  /\ pc = "argc"
  /\ ~ArgcOk(Len(argv))
  /\ Fail("Expected file path argument")
  /\ UNCHANGED <<argv, input, fs0, fs, name, stripped_name, ext, parsed, main_name,
                 main_contents, idx, cur, opened, written>>

FailArgcTooMany ==
  /\ pc = "argc"
  /\ ArgcOk(Len(argv))
  /\ ~ArgcNotTooMany(Len(argv))
  /\ Fail("Too many arguments")
  /\ UNCHANGED <<argv, input, fs0, fs, name, stripped_name, ext, parsed, main_name,
                 main_contents, idx, cur, opened, written>>

\* lines 22-23
CheckExt ==
  /\ pc = "splitext"
  /\ ExtOk(Splitext(name)[2])
  /\ stripped_name' = Splitext(name)[1]
  /\ ext' = Splitext(name)[2]
  /\ pc' = "open"
  /\ UNCHANGED <<argv, input, fs0, fs, err, name, parsed, main_name, main_contents,
                 idx, cur, handles, opened, written>>

FailExt ==
  /\ pc = "splitext"
  /\ ~ExtOk(Splitext(name)[2])
  /\ stripped_name' = Splitext(name)[1]
  /\ ext' = Splitext(name)[2]
  /\ Fail("Expected .split file")
  /\ UNCHANGED <<argv, input, fs0, fs, name, parsed, main_name, main_contents, idx,
                 cur, opened, written>>

\* line 25: open(name, 'r')
OpenInput ==
  /\ pc = "open"
  /\ handles' = handles \cup {Handle(name, "r")}
  /\ opened' = Append(opened, <<name, "r">>)
  /\ pc' = "read"
  /\ UNCHANGED <<argv, input, fs0, fs, err, name, stripped_name, ext, parsed,
                 main_name, main_contents, idx, cur, written>>

\* line 25: the input file is missing or unreadable
FailOpenInput ==
  /\ pc = "open"
  /\ opened' = Append(opened, <<name, "r">>)
  /\ Fail("IOError(open)")
  /\ UNCHANGED <<argv, input, fs0, fs, name, stripped_name, ext, parsed, main_name,
                 main_contents, idx, cur, written>>

\* line 26
ReadAndSplit ==
  /\ pc = "read"
  /\ parsed' = Split(input)
  /\ pc' = "main"
  /\ UNCHANGED <<argv, input, fs0, fs, err, name, stripped_name, ext, main_name,
                 main_contents, idx, cur, handles, opened, written>>

\* line 30
\* (faulty variant: the text before the first marker is always exported)
HasMainAlways(contents) == TRUE
HasMain(contents) == contents # <<>>

\* line 28
\* (faulty variant: the extension is left on)
MainNameUnstripped(stripped, full) == full
MainName(stripped, full) == stripped

\* lines 28-31: pop the text before the first marker, export it if not empty
PopMain ==
  /\ pc = "main"
  /\ main_name' = MainName(stripped_name, name)
  /\ main_contents' = Head(parsed)
  /\ parsed' = Tail(parsed)
  /\ IF HasMain(Head(parsed))
     THEN /\ cur' = <<MainName(stripped_name, name), Head(parsed)>>
          /\ pc' = "export_open"
     ELSE /\ cur' = cur
          /\ pc' = "for"
  /\ UNCHANGED <<argv, input, fs0, fs, err, name, stripped_name, ext, idx, handles,
                 opened, written>>

\* line 33: the next (sub_name, sub_contents) pair
ForNext ==
  /\ pc = "for"
  /\ idx < Len(Pairwise(parsed))
  /\ idx' = idx + 1
  /\ cur' = Pairwise(parsed)[idx + 1]
  /\ pc' = "export_open"
  /\ UNCHANGED <<argv, input, fs0, fs, err, name, stripped_name, ext, parsed,
                 main_name, main_contents, handles, opened, written>>

\* line 33 exhausted, and the end of the `with` block of line 25
ForEnd ==
  /\ pc = "for"
  /\ idx >= Len(Pairwise(parsed))
  /\ handles' = Close(handles, name)
  /\ pc' = "done"
  /\ UNCHANGED <<argv, input, fs0, fs, err, name, stripped_name, ext, parsed,
                 main_name, main_contents, idx, cur, opened, written>>

\* line 15: open(name, "w")
ExportOpen ==
  /\ pc = "export_open"
  /\ fs' = OpenW(fs, cur[1])
  /\ handles' = handles \cup {Handle(cur[1], "w")}
  /\ opened' = Append(opened, <<cur[1], "w">>)
  /\ pc' = "export_write"
  /\ UNCHANGED <<argv, input, fs0, err, name, stripped_name, ext, parsed, main_name,
                 main_contents, idx, cur, written>>

\* line 15: the destination cannot be opened for writing
\* (faulty variant: the error is recorded and the loop goes on)
FailExportOpenSwallowed ==
  /\ pc = "export_open"
  /\ opened' = Append(opened, <<cur[1], "w">>)
  /\ err' = "IOError(open)"
  /\ pc' = "for"
  /\ UNCHANGED <<argv, input, fs0, fs, name, stripped_name, ext, parsed, main_name,
                 main_contents, idx, cur, handles, written>>
FailExportOpen ==
  /\ pc = "export_open"
  /\ opened' = Append(opened, <<cur[1], "w">>)
  /\ Fail("IOError(open)")
  /\ UNCHANGED <<argv, input, fs0, fs, name, stripped_name, ext, parsed, main_name,
                 main_contents, idx, cur, written>>

\* line 16: f.write(contents)
ExportWrite ==
  /\ pc = "export_write"
  /\ fs' = Write(fs, cur[1], cur[2])
  /\ pc' = "export_close"
  /\ UNCHANGED <<argv, input, fs0, err, name, stripped_name, ext, parsed, main_name,
                 main_contents, idx, cur, handles, opened, written>>

\* line 16: the write fails after some part of the text reached the file
FailExportWrite ==
  /\ pc = "export_write"
  /\ \E k \in 0..(Len(cur[2]) - 1) : fs' = Write(fs, cur[1], Slice(cur[2], 1, k))
  /\ Fail("IOError(write)")
  /\ UNCHANGED <<argv, input, fs0, name, stripped_name, ext, parsed, main_name,
                 main_contents, idx, cur, opened, written>>

\* the end of the `with` block of line 15, and the return of export
ExportClose ==
  /\ pc = "export_close"
  /\ handles' = Close(handles, cur[1])
  /\ written' = Append(written, cur)
  /\ pc' = "for"
  /\ UNCHANGED <<argv, input, fs0, fs, err, name, stripped_name, ext, parsed,
                 main_name, main_contents, idx, cur, opened>>

Next ==
  \/ CheckArgc
  \/ FailArgcMissing
  \/ FailArgcTooMany
  \/ CheckExt
  \/ FailExt
  \/ OpenInput
  \/ FailOpenInput
  \/ ReadAndSplit
  \/ PopMain
  \/ ForNext
  \/ ForEnd
  \/ ExportOpen
  \/ FailExportOpen
  \/ ExportWrite
  \/ FailExportWrite
  \/ ExportClose

Spec == Init /\ [][Next]_vars

----------------------------------------------------------------------------
\* What a document says, read off its text

Whitespace == {SP, TAB, NL}
Blank == {SP, TAB}

\* first position from p on whose character is not in S
SkipWhile(t, p, S) ==
  IF p > Len(t) THEN p ELSE Min({q \in p..(Len(t) + 1) : q > Len(t) \/ t[q] \notin S})
\* first position from p on whose character is in S
SkipUntil(t, p, S) ==
  IF p > Len(t) THEN p ELSE Min({q \in p..(Len(t) + 1) : q > Len(t) \/ t[q] \in S})

LineStarts(t) == {p \in 1..Len(t) : p = 1 \/ t[p - 1] = NL}

\* The line at p read as: slashes, blanks, FILE:, blanks, a run of
\* non-whitespace characters, blanks, newline; blanks are characters of ws
ReadLine(t, p, ws) ==
  LET a == SkipWhile(t, p, {SL})
      b == SkipWhile(t, a, ws)
      c == b + Len(FILE)
      d == SkipWhile(t, c, ws)
      e == SkipUntil(t, d, Whitespace)
      f == SkipWhile(t, e, ws)
  IN  [ok |-> Lit(t, b, FILE) /\ e > d /\ f <= Len(t) /\ t[f] = NL,
       slashes |-> a - p, pad1 |-> b - a, pad2 |-> d - c, trail |-> f - e,
       gstart |-> d, gend |-> e, end |-> f + 1]

\* the markers the splitter finds in t; the text of marker m's group, and of
\* the segment after the i-th of the markers ms
Markers(t) == Finditer(t, 1)
TargetName(t, m) == Slice(t, m.gstart, m.gend - 1)
Segment(t, ms, i) ==
  Slice(t, ms[i].end, IF i < Len(ms) THEN ms[i + 1].start - 1 ELSE Len(t))
Preamble(t, ms) == Slice(t, 1, IF ms = <<>> THEN Len(t) ELSE ms[1].start - 1)

\* the path without a final ".split"
Stripped(path) == Slice(path, 1, Len(path) - 6)
EndsInSplit(path) ==
  Len(path) >= 6 /\ Slice(path, Len(path) - 5, Len(path)) = <<".", "s", "p", "l", "i", "t">>

\* the export calls a document with markers ms asks for, in document order
PlanOf(t, path, ms) ==
  (IF Preamble(t, ms) = <<>> THEN <<>> ELSE <<<<Stripped(path), Preamble(t, ms)>>>>)
  \o [i \in 1..Len(ms) |-> <<TargetName(t, ms[i]), Segment(t, ms, i)>>]
Plan(t, path) == PlanOf(t, path, Markers(t))

\* the files a sequence of export calls leaves in a directory
RECURSIVE After(_, _)
After(files, calls) ==
  IF calls = <<>> THEN files
  ELSE After([n \in DOMAIN files \cup {Head(calls)[1]} |->
                IF n = Head(calls)[1] THEN Head(calls)[2] ELSE files[n]],
             Tail(calls))

Ended == pc \in {"done", "failed"}

----------------------------------------------------------------------------
\* C1: when every marker of the input is a line `// FILE: <name>`, the names
\* pairwise distinct and none the stripped input path, a finished run leaves
\* for each marker line a file called <name> holding the text from the end
\* of that line to the start of the next marker line or the end of the input.

CanonicalAt(t, p) ==
  LET r == ReadLine(t, p, {SP})
  IN  r.ok /\ r.slashes = 2 /\ r.pad1 = 1 /\ r.pad2 = 1 /\ r.trail = 0
CanonicalStarts(t) == {p \in LineStarts(t) : CanonicalAt(t, p)}
OnlyCanonical(t) ==
  \A q \in 1..Len(t) : Lit(t, q, FILE) => \E p \in CanonicalStarts(t) : q = p + 3
CanonicalName(t, p) == Slice(t, ReadLine(t, p, {SP}).gstart, ReadLine(t, p, {SP}).gend - 1)
CanonicalBody(t, p) ==
  Slice(t, ReadLine(t, p, {SP}).end,
        Min({q \in CanonicalStarts(t) \cup {Len(t) + 1} : q > p}) - 1)
CanonicalDistinct(t, path) ==
  /\ \A p, q \in CanonicalStarts(t) : CanonicalName(t, p) = CanonicalName(t, q) => p = q
  /\ \A p \in CanonicalStarts(t) : CanonicalName(t, p) # Stripped(path)

C1_EachMarkerLineYieldsItsFile ==
  (pc = "done" /\ OnlyCanonical(input) /\ CanonicalDistinct(input, argv[2]))
  => \A p \in CanonicalStarts(input) :
       /\ CanonicalName(input, p) \in DOMAIN fs
       /\ fs[CanonicalName(input, p)] = CanonicalBody(input, p)

----------------------------------------------------------------------------
\* C2 as stated: from an empty directory, a finished run over a text with
\* N >= 1 markers leaves N + 1 files when the text before the first marker is
\* not empty and N files when it is.

FilesExpected(t, ms) == Len(ms) + (IF Preamble(t, ms) = <<>> THEN 0 ELSE 1)

C2_FileCountIsMarkerCount ==
  (pc = "done" /\ fs0 = NoFiles)
  => LET ms == Markers(input)
     IN  Len(ms) >= 1 => Cardinality(DOMAIN fs) = FilesExpected(input, ms)

\* C2 amended: the run leaves one file per distinct path among the target
\* names and (for a non-empty preamble) the stripped input path; that is
\* N + 1 or N files when these paths are pairwise distinct, fewer otherwise.

Paths(calls) == {calls[i][1] : i \in DOMAIN calls}

C2_FileCountIsDistinctPaths ==
  (pc = "done" /\ fs0 = NoFiles)
  => LET ms == Markers(input)
         plan == PlanOf(input, argv[2], ms)
     IN  Len(ms) >= 1
         => /\ DOMAIN fs = Paths(plan)
            /\ Cardinality(DOMAIN fs) <= FilesExpected(input, ms)
            /\ (Cardinality(Paths(plan)) = Len(plan)
                  => Cardinality(DOMAIN fs) = FilesExpected(input, ms))

C2_Witness ==
  /\ pc = "done"
  /\ fs0 = NoFiles
  /\ Len(Markers(input)) >= 2
  /\ Preamble(input, Markers(input)) # <<>>
  /\ Cardinality(DOMAIN fs) = Len(Markers(input)) + 1

----------------------------------------------------------------------------
\* C3: a finished run over a text without markers leaves exactly one new
\* file, called as the input path without `.split` and holding the whole
\* input, when the text is not empty, and no file when it is empty.

C3_NoMarkers ==
  (pc = "done" /\ Markers(input) = <<>>)
  => IF input # <<>>
     THEN /\ written = <<<<Stripped(argv[2]), input>>>>
          /\ DOMAIN fs = DOMAIN fs0 \cup {Stripped(argv[2])}
          /\ fs[Stripped(argv[2])] = input
          /\ \A n \in DOMAIN fs0 : n # Stripped(argv[2]) => fs[n] = fs0[n]
     ELSE written = <<>> /\ fs = fs0

C3_Witness ==
  /\ pc = "done"
  /\ Markers(input) = <<>>
  /\ Len(input) > 2
  /\ fs0 = NoFiles
  /\ DOMAIN fs = {<<"a">>}
  /\ fs[<<"a">>] = input

----------------------------------------------------------------------------
\* C4: the pieces the tokenizer returns rebuild the input: the preamble,
\* then for each target name in order a marker line carrying that name
\* (two slashes, spaces, FILE:, spaces, the name, spaces, newline) followed by
\* the segment paired with the name, give back the input character for
\* character.

Spaces(n) == [i \in 1..n |-> SP]

\* ps = <<name, segment, name, segment, ...>> rebuilds t from position pos on
RECURSIVE Rebuilds(_, _, _)
Rebuilds(ps, t, pos) ==
  IF ps = <<>> THEN pos = Len(t) + 1
  ELSE /\ Len(ps) >= 2
       /\ \E a \in 0..Len(t) :
            /\ Lit(t, pos, SLASHES \o Spaces(a) \o FILE)
            /\ \E b \in 0..Len(t) :
                 /\ Lit(t, pos + Len(SLASHES) + a + Len(FILE), Spaces(b) \o ps[1])
                 /\ \E c \in 0..Len(t) :
                      LET line == SLASHES \o Spaces(a) \o FILE \o Spaces(b) \o ps[1]
                                  \o Spaces(c) \o <<NL>>
                      IN  /\ Lit(t, pos, line \o ps[2])
                          /\ Rebuilds(Tail(Tail(ps)), t, pos + Len(line) + Len(ps[2]))

RoundTrip(ps, t) ==
  /\ ps # <<>>
  /\ Lit(t, 1, ps[1])
  /\ Rebuilds(Tail(ps), t, 1 + Len(ps[1]))

C4_RoundTrip == pc = "main" => RoundTrip(parsed, input)

C4_Witness ==
  /\ pc = "main"
  /\ Len(parsed) >= 5
  /\ parsed[1] # <<>>
  /\ parsed[3] # <<>>
  /\ \E i \in 1..Len(parsed[2]) : parsed[2][i] = NL
  /\ RoundTrip(parsed, input)

----------------------------------------------------------------------------
\* C5: when a target name stands in more than one marker, the segments are
\* written in document order and a finished run leaves in the file of that
\* name exactly the segment of the last marker carrying it.

Repeated(calls, i) == \E j \in DOMAIN calls : j # i /\ calls[j][1] = calls[i][1]
LastOfPath(calls, i) == \A j \in DOMAIN calls : j > i => calls[j][1] # calls[i][1]

C5_LastWriteWins ==
  pc = "done"
  => LET ms == Markers(input)
         calls == [i \in 1..Len(ms) |-> <<TargetName(input, ms[i]), Segment(input, ms, i)>>]
     IN  /\ err = ""
         /\ written = PlanOf(input, argv[2], ms)
         /\ \A i \in DOMAIN calls :
              (Repeated(calls, i) /\ LastOfPath(calls, i))
              => /\ calls[i][1] \in DOMAIN fs
                 /\ fs[calls[i][1]] = calls[i][2]

C5_Witness ==
  /\ pc = "done"
  /\ \E i, j \in DOMAIN written :
       /\ i < j
       /\ written[i][1] = written[j][1]
       /\ LastOfPath(written, j)
       /\ written[i][2] # <<>>
       /\ written[i][2] # written[j][2]
       /\ written[i][1] # <<"a">>
       /\ fs[written[j][1]] = written[j][2]

----------------------------------------------------------------------------
\* C6: with an argument count other than one path, or a path whose extension
\* is not `.split`, the run ends in an error before any file I/O: no file is
\* opened, none is written, and the directory is as it was.

BadArguments == Len(argv) # 2 \/ ~EndsInSplit(argv[2])

C6_BadArgumentsNoIO ==
  BadArguments
  => /\ pc \in {"argc", "splitext", "failed"}
     /\ opened = <<>>
     /\ written = <<>>
     /\ handles = {}
     /\ fs = fs0
     /\ (pc = "failed" =>
           err \in {"Expected file path argument", "Too many arguments",
                    "Expected .split file"})

C6_Witness ==
  /\ pc = "failed"
  /\ Len(argv) = 2
  /\ ~EndsInSplit(argv[2])
  /\ err = "Expected .split file"
  /\ fs0 = OldFiles
  /\ fs = fs0
  /\ opened = <<>>

----------------------------------------------------------------------------
\* C7: when the destination of an export cannot be opened, the run stops at
\* that file: the exports before it happened in document order and every
\* file they wrote keeps what was written to it, the failing destination is
\* left as it was, and no segment after the failing one is opened or written.

ExportOpenFailed ==
  err = "IOError(open)" /\ opened # <<>> /\ opened[Len(opened)][2] = "w"

C7_AbortKeepsEarlierFiles ==
  ExportOpenFailed
  => LET plan == Plan(input, argv[2])
         k == Len(written)
     IN  /\ pc = "failed"
         /\ k < Len(plan)
         /\ Append(written, cur) = SubSeq(plan, 1, k + 1)
         /\ opened = <<<<argv[2], "r">>>> \o [i \in 1..k |-> <<written[i][1], "w">>]
                     \o <<<<cur[1], "w">>>>
         /\ fs = After(fs0, written)

C7_Witness ==
  /\ ExportOpenFailed
  /\ pc = "failed"
  /\ Len(written) >= 1
  /\ written[1][2] # <<>>
  /\ Len(Plan(input, argv[2])) >= Len(written) + 2
  /\ fs[written[1][1]] = written[1][2]

----------------------------------------------------------------------------
\* C8 as stated: every line made of zero or more slashes, optional
\* whitespace, FILE:, optional whitespace, a run of non-whitespace
\* characters, optional whitespace and a newline is a marker whose target
\* name is that run.

MarkerWithGroup(ms, r) ==
  \E i \in DOMAIN ms : ms[i].gstart = r.gstart /\ ms[i].gend = r.gend /\ ms[i].end = r.end

Swallowed(ms, q) == \E i \in DOMAIN ms : ms[i].start < q /\ q < ms[i].end

\* from position e on, a newline comes before the next space, or right after
\* the spaces that follow the characters up to that space
NameRunsOn(t, e) ==
  LET s == SkipUntil(t, e, {SP})
      z == SkipWhile(t, s, {SP})
  IN  \/ \E q \in e..(s - 1) : t[q] = NL
      \/ (s <= Len(t) /\ z <= Len(t) /\ t[z] = NL)

----------------------------------------------------------------------------
\* C9: every span the splitter treats as a marker is one whole line: it
\* starts at the start of the input or right after a newline, its only
\* newline is its last character, and the target name holds no whitespace.

C9_MarkerIsOneLine ==
  pc = "main"
  => LET ms == Markers(input)
     IN  \A i \in DOMAIN ms :
           /\ ms[i].start \in LineStarts(input)
           /\ \A q \in ms[i].start..(ms[i].end - 2) : input[q] # NL
           /\ \A q \in ms[i].gstart..(ms[i].gend - 1) : input[q] \notin Whitespace

----------------------------------------------------------------------------
\* C10 as stated: no file handle stays open across the writing of more than
\* one segment, at most one output handle is open at a time, and every
\* handle is released when the run ends, normally or on an error.

InExport == pc \in {"export_write", "export_close"}
SegmentsSeen(h) == Len(written) - h.since + (IF InExport THEN 1 ELSE 0)
OutputHandles == {h \in handles : h.mode = "w"}
InputHandles == {h \in handles : h.mode = "r"}

C10_NoHandleAcrossSegments ==
  /\ \A h \in handles : SegmentsSeen(h) <= 1
  /\ Cardinality(OutputHandles) <= 1
  /\ (Ended => handles = {})

\* C10 amended: no output handle stays open across the writing of more than
\* one segment: each is opened, used and closed within one export, at most
\* one is open at a time, and every handle is released when the run ends,
\* normally or on an error; the input handle is held from line 25 until the
\* run ends, across the writing of all segments.

C10_OutputHandlesScoped ==
  /\ \A h \in OutputHandles : InExport /\ h.path = cur[1] /\ h.since = Len(written)
  /\ Cardinality(OutputHandles) <= 1
  /\ (InExport => OutputHandles # {})
  /\ (Ended => handles = {})
  /\ (InputHandles # {} <=> pc \in {"read", "main", "for", "export_open",
                                     "export_write", "export_close"})
  /\ \A h \in InputHandles : h.path = argv[2] /\ h.since = 0

C10_Witness ==
  /\ pc = "export_write"
  /\ Len(written) >= 2
  /\ Cardinality(OutputHandles) = 1
  /\ Cardinality(InputHandles) = 1

====
